---------------------------- MODULE Spec2Model ----------------------------
(***************************************************************************)
(* A model of src/src/meds/schema.py (Medical Event Data Standard).        *)
(*                                                                         *)
(* The module object is modelled by its mutable parts:                     *)
(*   codes                the set held by birth_code.codes                 *)
(*   code_metadata_entry  the dict object bound to code_metadata_entry,    *)
(*                        which code_metadata and dataset_metadata hold    *)
(*                        by reference                                     *)
(* and by the record of the last operation a consumer ran against it.      *)
(***************************************************************************)
EXTENDS Integers, Sequences, FiniteSets, TLC

VARIABLES
    codes,                \* birth_code.codes, a Python set of str
    code_metadata_entry,  \* the dict object named code_metadata_entry
    prev,                 \* the previous patient_schema call: its argument and result
    last                  \* the last operation: its inputs and its result

vars == <<codes, code_metadata_entry, prev, last>>

\* The largest number of events in a Patient value handed to a conformance check.
MaxEvents == 2

(***************************************************************************)
(* Python values that are compared with the codes.                         *)
(***************************************************************************)
Str(s) == [t |-> "str", s |-> s]

\* birth_code = BirthCode("SNOMED/184099003", "SNOMED/3950001"): the arguments
BirthCodeArgs == <<"SNOMED/184099003", "SNOMED/3950001">>

death_code_alt == "SNOMED/184099003"

death_code == "SNOMED/419620001"

\* the module-level BirthCode instance, and another instance a caller made
TheBirthCode == [t |-> "BirthCode", ref |-> "birth_code"]
OtherBirthCode == [t |-> "BirthCode", ref |-> "other"]
OtherBirthCodeCodes == {"SNOMED/3950001"}

CandidateStrings ==
    {"SNOMED/184099003", "SNOMED/3950001", "SNOMED/419620001",
     "SNOMED/3950002", "snomed/3950001", ""}

Candidates ==
    {Str(s) : s \in CandidateStrings}
    \cup {[t |-> "int", n |-> 3950001],
          [t |-> "NoneType"],
          [t |-> "tuple", items |-> <<"SNOMED/3950001">>],
          [t |-> "frozenset", elems |-> {"SNOMED/3950001"}],
          [t |-> "set", elems |-> {}],
          [t |-> "set", elems |-> {"SNOMED/3950001"}],
          [t |-> "list", items |-> <<>>],
          [t |-> "list", items |-> <<"SNOMED/3950001">>],
          [t |-> "dict", keys |-> {}],
          TheBirthCode,
          OtherBirthCode}

\* BirthCode.__init__: self.codes = set(codes)
BirthCode__init__alt(args) == {args[1]}

BirthCode__init__(args) == {args[i] : i \in DOMAIN args}

\* hash(v) succeeds. list, dict and set define no hash; a class that defines
\* __eq__ and no __hash__ (BirthCode) has __hash__ set to None.
HashableAlt(v) == v.t \in {"str", "int", "NoneType", "tuple", "frozenset", "BirthCode"}

Hashable(v) == v.t \in {"str", "int", "NoneType", "tuple", "frozenset"}

\* `key in s` for a set s of str: "True", "False" or "TypeError". An
\* unhashable key raises TypeError, except that a set is looked up as the
\* frozenset of its elements, which equals no str.
SetContains(s, key) ==
    IF Hashable(key)
    THEN IF key.t = "str" /\ key.s \in s THEN "True" ELSE "False"
    ELSE IF key.t = "set" THEN "False" ELSE "TypeError"

\* BirthCode.__eq__(self, other): the value returned (or the exception raised)
\* and self.codes after the call.
BirthCode__eq__first(self, other) ==
    [ret  |-> IF other.t = "str" /\ other.s = BirthCodeArgs[1] THEN "True" ELSE "False",
     self |-> self]

BirthCode__eq__memo(self, other) ==
    [ret  |-> SetContains(self, other),
     self |-> IF other.t = "str" THEN self \cup {other.s} ELSE self]

BirthCode__eq__(self, other) ==
    [ret |-> SetContains(self, other), self |-> self]

Bool(b) == IF b THEN "True" ELSE "False"

\* type(a).__eq__(a, b) for the built-in types: NotImplemented when b is of
\* another type.
BuiltinEq(a, b) ==
    CASE a.t = "str"  -> IF b.t = "str" THEN Bool(a.s = b.s) ELSE "NotImplemented"
      [] a.t = "int"  -> IF b.t = "int" THEN Bool(a.n = b.n) ELSE "NotImplemented"
      [] a.t \in {"list", "tuple"} ->
             IF b.t = a.t THEN Bool(a.items = b.items) ELSE "NotImplemented"
      [] a.t \in {"set", "frozenset"} ->
             IF b.t \in {"set", "frozenset"} THEN Bool(a.elems = b.elems)
             ELSE "NotImplemented"
      [] a.t = "dict" -> IF b.t = "dict" THEN Bool(a.keys = b.keys) ELSE "NotImplemented"
      [] OTHER        -> IF a = b THEN "True" ELSE "NotImplemented"

ObjCodes(ref) == IF ref = "birth_code" THEN codes ELSE OtherBirthCodeCodes

\* type(a).__eq__(a, b): what it returns, and birth_code.codes after the call
TypeEq(a, b) ==
    IF a.t = "BirthCode"
    THEN LET r == BirthCode__eq__(ObjCodes(a.ref), b)
         IN  [ret |-> r.ret, codes |-> IF a.ref = "birth_code" THEN r.self ELSE codes]
    ELSE [ret |-> BuiltinEq(a, b), codes |-> codes]

\* The expression a == b: the left operand's __eq__, then, when that declines
\* (NotImplemented), the right operand's with the operands reflected, then
\* identity. An exception propagates.
PyEq(a, b) ==
    LET first == TypeEq(a, b)
    IN  IF first.ret # "NotImplemented" THEN first
        ELSE LET second == TypeEq(b, a)
             IN  IF second.ret # "NotImplemented" THEN second
                 ELSE [ret |-> Bool(a = b), codes |-> codes]

(***************************************************************************)
(* The columnar (pyarrow) schemas.                                         *)
(***************************************************************************)
null == [k |-> "null"]
string == [k |-> "string"]
int64 == [k |-> "int64"]
float32 == [k |-> "float32"]
bool_ == [k |-> "bool"]
timestamp(unit) == [k |-> "timestamp", unit |-> unit]
list_(elem) == [k |-> "list", elem |-> elem]

\* a (name, type) pair given to pa.struct or pa.schema becomes a field, and a
\* field made without nullable=False is nullable
field(name, type) == [name |-> name, type |-> type, nullable |-> TRUE]
struct(fields) == [k |-> "struct", fields |-> fields]
schema(fields) == [k |-> "schema", fields |-> fields]

\* the column types a caller passes as per_event_metadata_schema
MetadataTypes ==
    {null, string, int64,
     struct(<<field("source", string)>>),
     list_(struct(<<field("visit_id", int64), field("note", string)>>))}

measurement(per_event_metadata_schema) ==
    struct(<<field("code", string),
             field("text_value", string),
             field("numeric_value", float32),
             field("datetime_value", timestamp("us")),
             field("metadata", per_event_metadata_schema)>>)

event(per_event_metadata_schema) ==
    struct(<<field("time", timestamp("us")),
             field("measurements", list_(measurement(per_event_metadata_schema)))>>)

patient_schema_fixed(per_event_metadata_schema) ==
    schema(<<field("patient_id", int64),
             field("static_measurements", list_(measurement(per_event_metadata_schema))),
             field("events", list_(event(null)))>>)

patient_schema(per_event_metadata_schema) ==
    schema(<<field("patient_id", int64),
             field("static_measurements", list_(measurement(per_event_metadata_schema))),
             field("events", list_(event(per_event_metadata_schema)))>>)

\* the default of the parameter, pa.null(), evaluated once at definition
patient_schema_default == null

label_extra ==
    schema(<<field("patient_id", int64),
             field("prediction_time", timestamp("us")),
             field("boolean_value", bool_),
             field("metadata", null)>>)

label ==
    schema(<<field("patient_id", int64),
             field("prediction_time", timestamp("us")),
             field("boolean_value", bool_)>>)

\* the type of the field called name, among fields
FieldType(fields, name) ==
    LET i == CHOOSE j \in DOMAIN fields : fields[j].name = name
    IN  fields[i].type

(***************************************************************************)
(* Python values checked against a columnar schema: None, int, str, float, *)
(* datetime, bool, list and dict.                                          *)
(***************************************************************************)
None == [k |-> "none"]
Integer(n) == [k |-> "int", n |-> n]
Text(s) == [k |-> "str", s |-> s]
Datetime(us) == [k |-> "datetime", us |-> us]
List(items) == [k |-> "list", items |-> items]
Dict(d) == [k |-> "dict", d |-> d]

Get(v, name) == IF name \in DOMAIN v.d THEN v.d[name] ELSE None

\* A value is accepted as a column of type t. None is accepted by every
\* nullable field and as every list element; a list type constrains the type
\* of its elements and nothing else.
RECURSIVE TypeAccepts(_, _)
TypeAccepts(t, v) ==
    CASE v.k = "none"       -> TRUE
      [] t.k = "null"       -> FALSE
      [] t.k = "string"     -> v.k = "str"
      [] t.k = "int64"      -> v.k = "int"
      [] t.k = "float32"    -> v.k \in {"float", "int"}
      [] t.k = "bool"       -> v.k = "bool"
      [] t.k = "timestamp"  -> v.k = "datetime"
      [] t.k = "list"       ->
             v.k = "list" /\ \A i \in DOMAIN v.items : TypeAccepts(t.elem, v.items[i])
      [] t.k = "struct"     ->
             v.k = "dict" /\ \A i \in DOMAIN t.fields :
                 LET x == Get(v, t.fields[i].name)
                 IN  IF x.k = "none" THEN t.fields[i].nullable
                     ELSE TypeAccepts(t.fields[i].type, x)
      [] OTHER              -> FALSE

IsSortedByTime(events) ==
    \A i, j \in DOMAIN events :
        (i < j /\ events[i].k = "dict" /\ events[j].k = "dict"
               /\ Get(events[i], "time").k = "datetime"
               /\ Get(events[j], "time").k = "datetime")
            => Get(events[i], "time").us <= Get(events[j], "time").us

\* a Patient value (one row) conforms to a schema
ConformsOrdered(sch, patient) ==
    /\ TypeAccepts(struct(sch.fields), patient)
    /\ patient.k = "dict" /\ Get(patient, "events").k = "list"
    /\ IsSortedByTime(Get(patient, "events").items)

Conforms(sch, patient) == TypeAccepts(struct(sch.fields), patient)

\* the Patient values handed to a conformance check
BirthMeasurement == Dict("code" :> Text(BirthCodeArgs[2]))
EventAt(t) ==
    Dict(("time" :> Datetime(t)) @@ ("measurements" :> List(<<BirthMeasurement>>)))
EventChoices == {EventAt(t) : t \in {10, 20}}

\* an event whose time is no timestamp
MalformedEvent == Dict(("time" :> Text("yesterday")) @@ ("measurements" :> List(<<>>)))

EventLists ==
    UNION {[1..n -> EventChoices] : n \in 0..MaxEvents}
    \cup {<<MalformedEvent>>, <<EventAt(20), MalformedEvent>>}

PatientOf(events) ==
    Dict(("patient_id" :> Integer(42)) @@ ("static_measurements" :> List(<<>>))
         @@ ("events" :> List(events)))

Orders(n) == {p \in [1..n -> 1..n] : \A i, j \in 1..n : p[i] = p[j] => i = j}
Permute(events, p) == [i \in DOMAIN events |-> events[p[i]]]

(***************************************************************************)
(* The dataset metadata JSON Schema. A schema is a dict; a keyword the     *)
(* source leaves out is given its default: no properties, no               *)
(* additionalProperties, no items (the empty tuple), nothing required.     *)
(***************************************************************************)
JSchema(type, properties, additionalProperties, items) ==
    [type |-> type, properties |-> properties,
     additionalProperties |-> additionalProperties, items |-> items,
     required |-> {}]

JString == JSchema("string", <<>>, <<>>, <<>>)

\* the dict literal bound to code_metadata_entry when the module is imported
code_metadata_entry_literal ==
    JSchema("object",
            ("description" :> JString)
            @@ ("parent_codes" :> JSchema("array", <<>>, <<>>, <<JString>>)),
            <<>>, <<>>)

\* code_metadata holds the code_metadata_entry object itself, not a copy
code_metadata == JSchema("object", <<>>, <<code_metadata_entry>>, <<>>)

dataset_metadata_strict ==
    [JSchema("object",
             ("dataset_name" :> JString) @@ ("dataset_version" :> JString)
             @@ ("etl_name" :> JString) @@ ("etl_version" :> JString)
             @@ ("code_metadata" :> code_metadata),
             <<>>, <<>>)
     EXCEPT !.required = {"dataset_name", "dataset_version"}]

dataset_metadata ==
    JSchema("object",
            ("dataset_name" :> JString) @@ ("dataset_version" :> JString)
            @@ ("etl_name" :> JString) @@ ("etl_version" :> JString)
            @@ ("code_metadata" :> code_metadata),
            <<>>, <<>>)

\* JSON documents
JStr(s) == [k |-> "string", s |-> s]
JNum(n) == [k |-> "number", n |-> n]
JArr(a) == [k |-> "array", a |-> a]
JObj(o) == [k |-> "object", o |-> o]

\* A document is valid against a schema, by the keywords the schemas use:
\* type, properties, additionalProperties, items, required.
RECURSIVE Validates(_, _)
Validates(s, d) ==
    /\ d.k = s.type
    /\ d.k = "object" =>
          /\ s.required \subseteq DOMAIN d.o
          /\ \A n \in DOMAIN d.o \cap DOMAIN s.properties :
                 Validates(s.properties[n], d.o[n])
          /\ s.additionalProperties # <<>> =>
                 \A n \in DOMAIN d.o \ DOMAIN s.properties :
                     Validates(s.additionalProperties[1], d.o[n])
    /\ (d.k = "array" /\ s.items # <<>>) =>
          \A i \in DOMAIN d.a : Validates(s.items[1], d.a[i])

\* the documents handed to the validator
DescriptionChoices == {<<>>, "description" :> JStr("Birth"), "description" :> JNum(7)}
ParentCodesChoices ==
    {<<>>,
     "parent_codes" :> JArr(<<>>),
     "parent_codes" :> JArr(<<JStr("SNOMED/3950001")>>),
     "parent_codes" :> JArr(<<JStr("SNOMED/3950001"), JNum(7)>>),
     "parent_codes" :> JStr("SNOMED/3950001")}
EntryDocs ==
    {JObj(d @@ p) : d \in DescriptionChoices, p \in ParentCodesChoices}
    \cup {JStr("Birth")}
CodeKeys == {"description", "any key at all"}
Documents ==
    {JObj("code_metadata" :> JObj(key :> e)) : key \in CodeKeys, e \in EntryDocs}
    \cup {JObj(("dataset_name" :> JStr("mimic"))
               @@ ("code_metadata" :> JObj(("SNOMED/184099003" :> e1) @@ ("SNOMED/3950001" :> e2))))
             : e1 \in {JObj(d @@ ("parent_codes" :> JArr(<<>>))) : d \in DescriptionChoices},
               e2 \in {JObj(("description" :> JStr("Birth")) @@ p) : p \in ParentCodesChoices}}
    \cup {JObj(<<>>),
          JObj("dataset_name" :> JStr("mimic")),
          JObj("dataset_name" :> JNum(7)),
          JObj("etl_version" :> JStr("1.0")),
          JObj(("dataset_name" :> JStr("mimic")) @@ ("dataset_version" :> JStr("2"))
               @@ ("etl_name" :> JStr("etl")) @@ ("etl_version" :> JStr("1.0"))),
          JObj("license" :> JNum(7)),
          JObj("code_metadata" :> JObj(<<>>)),
          JObj("code_metadata" :> JStr("none")),
          JStr("mimic")}

(***************************************************************************)
(* The TypedDict declarations: the keys, and those marked NotRequired.     *)
(***************************************************************************)
TypedDict(keys, not_required) == [keys |-> keys, not_required |-> not_required]

Measurement ==
    TypedDict({"code", "text_value", "numeric_value", "datetime_value", "metadata"},
              {"text_value", "numeric_value", "datetime_value", "metadata"})
Event == TypedDict({"time", "measurements"}, {})
Patient == TypedDict({"patient_id", "static_measurements", "events"}, {})
Label == TypedDict({"patient_id", "prediction_time", "boolean_value"}, {})
CodeMetadataEntry == TypedDict({"description", "parent_codes"}, {})
DatasetMetadata ==
    TypedDict({"dataset_name", "dataset_version", "etl_name", "etl_version",
               "code_metadata"},
              {"dataset_name", "dataset_version", "etl_name", "etl_version",
               "code_metadata"})

\* a dict with these keys is of the declared type, as far as its keys go
TypedDictAcceptsKeys(decl, keys) ==
    /\ keys \subseteq decl.keys
    /\ (decl.keys \ decl.not_required) \subseteq keys

\* the names a columnar schema or a JSON schema declares, and those it requires
ColumnNames(fields) == {fields[i].name : i \in DOMAIN fields}
ColumnsRequired(fields) == {fields[i].name : i \in {j \in DOMAIN fields : ~fields[j].nullable}}

\* each declaration with the names and the required names of its schema
Declarations ==
    LET m == measurement(patient_schema_default).fields
        e == event(patient_schema_default).fields
        p == patient_schema(patient_schema_default).fields
    IN  {[decl |-> Measurement, names |-> ColumnNames(m), required |-> ColumnsRequired(m)],
         [decl |-> Event, names |-> ColumnNames(e), required |-> ColumnsRequired(e)],
         [decl |-> Patient, names |-> ColumnNames(p), required |-> ColumnsRequired(p)],
         [decl |-> Label, names |-> ColumnNames(label.fields),
          required |-> ColumnsRequired(label.fields)],
         [decl |-> CodeMetadataEntry, names |-> DOMAIN code_metadata_entry.properties,
          required |-> code_metadata_entry.required],
         [decl |-> DatasetMetadata, names |-> DOMAIN dataset_metadata.properties,
          required |-> dataset_metadata.required]}

(***************************************************************************)
(* The module after import, and the operations run against it.             *)
(***************************************************************************)
Init ==
    /\ codes = BirthCode__init__(BirthCodeArgs)
    /\ code_metadata_entry = code_metadata_entry_literal
    /\ prev = [called |-> FALSE]
    /\ last = [op |-> "import"]

\* the two code constants, as operands of ==
CodeConstants == {"birth_code", "death_code"}
ValueOf(code) == IF code = "birth_code" THEN TheBirthCode ELSE Str(death_code)

\* code == v, with birth_code or death_code on the left
CompareLeft(code, v) ==
    LET r == PyEq(ValueOf(code), v)
    IN  /\ last' = [op |-> "eq", code |-> code, side |-> "left", other |-> v,
                    res |-> r.ret]
        /\ codes' = r.codes
        /\ UNCHANGED <<code_metadata_entry, prev>>

\* v == code, with birth_code or death_code on the right
CompareRight(v, code) ==
    LET r == PyEq(v, ValueOf(code))
    IN  /\ last' = [op |-> "eq", code |-> code, side |-> "right", other |-> v,
                    res |-> r.ret]
        /\ codes' = r.codes
        /\ UNCHANGED <<code_metadata_entry, prev>>

\* patient_schema() and patient_schema(T)
NoArgument == [given |-> FALSE]
Argument(T) == [given |-> TRUE, type |-> T]
Arguments == {NoArgument} \cup {Argument(T) : T \in MetadataTypes}

PatientSchemaCall(arg) ==
    LET T   == IF arg.given THEN arg.type ELSE patient_schema_default
        res == patient_schema(T)
    IN  /\ last' = [op |-> "patient_schema", arg |-> arg, res |-> res,
                    again |-> prev.called /\ prev.arg = arg,
                    same  |-> prev.called /\ prev.arg = arg /\ prev.res = res]
        /\ prev' = [called |-> TRUE, arg |-> arg, res |-> res]
        /\ UNCHANGED <<codes, code_metadata_entry>>

\* reading the module attribute label
ReadLabel ==
    /\ last' = [op |-> "label", res |-> label]
    /\ UNCHANGED <<codes, code_metadata_entry, prev>>

\* a consumer validates a metadata.json document against dataset_metadata
Validate(doc) ==
    /\ last' = [op |-> "validate", doc |-> doc, res |-> Validates(dataset_metadata, doc)]
    /\ UNCHANGED <<codes, code_metadata_entry, prev>>

\* a consumer checks a Patient value, and the same value with its events in
\* another order, against the schema the last patient_schema call returned
CheckConforms(events, p) ==
    /\ prev.called
    /\ last' = [op |-> "conforms",
                events |-> events,
                permuted |-> Permute(events, p),
                res |-> Conforms(prev.res, PatientOf(events)),
                res_permuted |-> Conforms(prev.res, PatientOf(Permute(events, p)))]
    /\ UNCHANGED <<codes, code_metadata_entry, prev>>

ModuleNext ==
    \/ \E code \in CodeConstants, v \in Candidates : CompareLeft(code, v)
    \/ \E code \in CodeConstants, v \in Candidates : CompareRight(v, code)
    \/ \E arg \in Arguments : PatientSchemaCall(arg)
    \/ ReadLabel
    \/ \E doc \in Documents : Validate(doc)
    \/ \E events \in EventLists : \E p \in Orders(Len(events)) : CheckConforms(events, p)

Next == ModuleNext

Spec == Init /\ [][Next]_vars

(***************************************************************************)
(* A caller that mutates the objects the module exposes: birth_code.codes  *)
(* is a set and code_metadata_entry is a dict.                             *)
(***************************************************************************)
CallerCodes == {"SNOMED/3950002", "SNOMED/3950001"}

\* birth_code.codes.add(s)
CallerAddCode(s) ==
    /\ s \notin codes
    /\ codes' = codes \cup {s}
    /\ last' = [op |-> "codes.add", arg |-> s]
    /\ UNCHANGED <<code_metadata_entry, prev>>

\* birth_code.codes.discard(s)
CallerDiscardCode(s) ==
    /\ s \in codes
    /\ codes' = codes \ {s}
    /\ last' = [op |-> "codes.discard", arg |-> s]
    /\ UNCHANGED <<code_metadata_entry, prev>>

\* code_metadata_entry["required"] = names
CallerSetRequired(names) ==
    /\ code_metadata_entry.required # names
    /\ code_metadata_entry' = [code_metadata_entry EXCEPT !.required = names]
    /\ last' = [op |-> "entry.required", arg |-> names]
    /\ UNCHANGED <<codes, prev>>

CallerNext ==
    \/ \E s \in CallerCodes : CallerAddCode(s)
    \/ \E s \in CallerCodes : CallerDiscardCode(s)
    \/ \E names \in {{}, {"description", "parent_codes"}} : CallerSetRequired(names)

NextWithCaller == ModuleNext \/ CallerNext

SpecWithCaller == Init /\ [][NextWithCaller]_vars

(***************************************************************************)
(* The properties.                                                         *)
(***************************************************************************)
IsBirthCodeCheck == last.op = "eq" /\ last.code = "birth_code"

\* C1: birth_code == s, for a string s, is true exactly when s is one of the
\* two synonyms "SNOMED/184099003" and "SNOMED/3950001".
C1_BirthCodeEqIffSynonym ==
    (IsBirthCodeCheck /\ last.side = "left" /\ last.other.t = "str")
        => last.res = Bool(last.other.s \in {"SNOMED/184099003", "SNOMED/3950001"})

C1_Witness ==
    /\ IsBirthCodeCheck /\ last.side = "left"
    /\ last.other = Str("SNOMED/3950001") /\ last.res = "True"

\* the types of the metadata field of the two Measurement structs of a schema
MetadataFieldTypes(sch) ==
    LET static == FieldType(sch.fields, "static_measurements").elem
        ev     == FieldType(sch.fields, "events").elem
        meas   == FieldType(ev.fields, "measurements").elem
    IN  {FieldType(static.fields, "metadata"), FieldType(meas.fields, "metadata")}

\* C2: patient_schema() types the metadata field of both Measurement structs
\* as null, and patient_schema(T) types it as exactly T.
C2_MetadataFieldIsArgument ==
    last.op = "patient_schema"
        => MetadataFieldTypes(last.res)
               = {IF last.arg.given THEN last.arg.type ELSE [k |-> "null"]}

C2_Witness ==
    /\ last.op = "patient_schema" /\ last.arg.given
    /\ last.arg.type = struct(<<field("source", string)>>)
    /\ MetadataFieldTypes(last.res) = {struct(<<field("source", string)>>)}

\* C3: label has exactly the fields patient_id (int64), prediction_time
\* (timestamp in microseconds) and boolean_value (bool), in this order.
C3_LabelHasThreeFields ==
    last.op = "label"
        => [i \in DOMAIN last.res.fields |->
               <<last.res.fields[i].name, last.res.fields[i].type>>]
           = << <<"patient_id", [k |-> "int64"]>>,
                <<"prediction_time", [k |-> "timestamp", unit |-> "us"]>>,
                <<"boolean_value", [k |-> "bool"]>> >>

C3_Witness == last.op = "label" /\ Len(last.res.fields) = 3

IsStringArray(d) == d.k = "array" /\ \A i \in DOMAIN d.a : d.a[i].k = "string"
Has(d, key) == d.k = "object" /\ key \in DOMAIN d.o

\* an entry of the shape {description: string, parent_codes: array of strings}
EntryShaped(e) ==
    /\ Has(e, "description") /\ e.o["description"].k = "string"
    /\ Has(e, "parent_codes") /\ IsStringArray(e.o["parent_codes"])
    /\ DOMAIN e.o = {"description", "parent_codes"}

\* an entry with a description that is no string, or with parent_codes that
\* is no array of strings
EntryMisshaped(e) ==
    \/ Has(e, "description") /\ e.o["description"].k # "string"
    \/ Has(e, "parent_codes") /\ ~IsStringArray(e.o["parent_codes"])

StringFields == {"dataset_name", "dataset_version", "etl_name", "etl_version"}

\* no top-level field but string fields with string values, and code_metadata
TopLevelWellTyped(d) ==
    /\ d.k = "object"
    /\ DOMAIN d.o \subseteq StringFields \cup {"code_metadata"}
    /\ \A n \in DOMAIN d.o \cap StringFields : d.o[n].k = "string"

\* C4: every top-level field of dataset_metadata is optional (a document with
\* only dataset_name is valid); a code_metadata object whose entries, under
\* any keys, have the CodeMetadataEntry shape is valid; one with an entry
\* whose description is no string or whose parent_codes is no array of
\* strings is not.
C4_DatasetMetadataValidation ==
    last.op = "validate" =>
        LET d == last.doc
        IN  /\ (TopLevelWellTyped(d) /\ ~Has(d, "code_metadata")) => last.res
            /\ (/\ TopLevelWellTyped(d) /\ Has(d, "code_metadata")
                /\ d.o["code_metadata"].k = "object"
                /\ \A key \in DOMAIN d.o["code_metadata"].o :
                       EntryShaped(d.o["code_metadata"].o[key]))
                   => last.res
            /\ (/\ Has(d, "code_metadata") /\ d.o["code_metadata"].k = "object"
                /\ \E key \in DOMAIN d.o["code_metadata"].o :
                       EntryMisshaped(d.o["code_metadata"].o[key]))
                   => ~last.res

C4_Witness ==
    /\ last.op = "validate" /\ last.res
    /\ Has(last.doc, "code_metadata") /\ ~Has(last.doc, "dataset_name")
    /\ Has(last.doc.o["code_metadata"], "any key at all")
    /\ EntryShaped(last.doc.o["code_metadata"].o["any key at all"])

\* C5: a field is NotRequired in a TypedDict declaration exactly when its
\* schema does not require it, so a value its schema accepts with a field
\* absent has every key its declaration requires.
C5_OptionalIffNotRequired ==
    /\ \A x \in Declarations :
           /\ x.decl.keys = x.names
           /\ \A f \in x.decl.keys : (f \in x.decl.not_required) <=> (f \notin x.required)
    /\ (last.op = "validate" /\ last.res /\ Has(last.doc, "code_metadata"))
           => \A key \in DOMAIN last.doc.o["code_metadata"].o :
                  TypedDictAcceptsKeys(CodeMetadataEntry,
                                       DOMAIN last.doc.o["code_metadata"].o[key].o)

ModuleOperations == {"eq", "patient_schema", "label", "validate", "conforms"}

C7_DeathCodeIsOneString ==
    (last.op = "eq" /\ last.code = "death_code" /\ last.other.t = "str")
        => last.res = Bool(last.other.s = "SNOMED/419620001")

C7_Witness ==
    /\ last.op = "eq" /\ last.code = "death_code"
    /\ last.other = Str("SNOMED/184099003") /\ last.res = "False"

C9_ReflectedEqualsDirect ==
    (IsBirthCodeCheck /\ last.side = "right" /\ last.other.t = "str")
        => /\ last.res = Bool(last.other.s \in {"SNOMED/184099003", "SNOMED/3950001"})
           /\ last.res = PyEq(TheBirthCode, last.other).ret

C9_Witness ==
    /\ IsBirthCodeCheck /\ last.side = "right"
    /\ last.other = Str("SNOMED/3950001") /\ last.res = "True"

\* C10, as stated: a birth_code check gives a boolean for the hashable
\* candidates only, and TypeError for every unhashable one.
C10_UnhashableAlwaysTypeError ==
    IsBirthCodeCheck
        => IF last.other.t \in {"str", "int", "NoneType", "tuple", "frozenset"}
           THEN last.res \in {"True", "False"}
           ELSE last.res = "TypeError"

\* C10, amended: a birth_code check ends in TypeError for a list, a dict and a
\* BirthCode instance (birth_code itself included), and gives a boolean for
\* every other candidate; a set, though unhashable, gives false.
C10_UnhashableExceptSetTypeError ==
    IsBirthCodeCheck
        => /\ last.other.t \in {"list", "dict", "BirthCode"} => last.res = "TypeError"
           /\ last.other.t \notin {"list", "dict", "BirthCode"}
                  => last.res \in {"True", "False"}
           /\ last.other.t = "set" => last.res = "False"

C10_Witness ==
    /\ IsBirthCodeCheck /\ last.side = "left"
    /\ last.other = TheBirthCode /\ last.res = "TypeError"

=============================================================================
